---- MODULE Spec2Model ----
(***************************************************************************)
(* Model of the account management API of src/app.py: the Account table,   *)
(* the validation functions and the five request handlers on               *)
(* /api/v1/accounts.  A run of the model is a sequence of HTTP requests,   *)
(* each handled to completion; req and resp record the last request and    *)
(* the response it was given.                                              *)
(*                                                                         *)
(* Strings are sequences of one-character strings, so that the regular     *)
(* expression of validate_email, str.strip and sanitize_input are computed *)
(* character by character.  JSON values are tagged records.                *)
(***************************************************************************)
EXTENDS Integers, Sequences, FiniteSets

VARIABLES store, clock, deleted, req, resp

vars == <<store, clock, deleted, req, resp>>

\* ------------------------------------------------------------------ bounds
\* Largest primary key the model lets the table hand out.
MaxId == 2

\* Last tick of the clock read by datetime.utcnow.
MaxTime == 1

NumWorkers == 2

\* ------------------------------------------------------------ JSON values
Null == [kind |-> "null"]

Str(s) == [kind |-> "str", val |-> s]

Num(n) == [kind |-> "num", val |-> n]

\* isinstance(v, str)
IsStr(v) == v.kind = "str"

\* ------------------------------------------------------------- characters
Lower == {"a","b","c","d","e","f","g","h","i","j","k","l","m",
          "n","o","p","q","r","s","t","u","v","w","x","y","z"}

Upper == {"A","B","C","D","E","F","G","H","I","J","K","L","M",
          "N","O","P","Q","R","S","T","U","V","W","X","Y","Z"}

Letters == Lower \cup Upper

Digits == {"0","1","2","3","4","5","6","7","8","9"}

\* [a-zA-Z0-9._%+-]
LocalChars == Letters \cup Digits \cup {".", "_", "%", "+", "-"}

\* [a-zA-Z0-9.-]
DomainChars == Letters \cup Digits \cup {".", "-"}

\* the characters str.strip() removes
Whitespace == {" ", "\t", "\n", "\r"}

\* ------------------------------------------------------- validation layer
\* ^[a-zA-Z0-9._%+-]+@[a-zA-Z0-9.-]+\.[a-zA-Z]{2,}$ matched from the start
\* of s; "$" matches at the end of s and just before a final newline.
PatternMatches(s) ==
    LET n == Len(s)
        Ends == {n} \cup (IF n > 0 /\ s[n] = "\n" THEN {n - 1} ELSE {})
    IN \E e \in Ends : \E i \in 1..e : \E j \in 1..e :
          /\ 1 < i /\ i + 1 < j /\ j + 2 <= e
          /\ s[i] = "@" /\ s[j] = "."
          /\ \A k \in 1..(i - 1) : s[k] \in LocalChars
          /\ \A k \in (i + 1)..(j - 1) : s[k] \in DomainChars
          /\ \A k \in (j + 1)..e : s[k] \in Letters

\* validate_email: re.match raises TypeError on a value that is no string.
validate_email(email) ==
    IF IsStr(email)
    THEN [kind |-> "ok", val |-> PatternMatches(email.val)]
    ELSE [kind |-> "Exception", type |-> "TypeError"]

RECURSIVE lstrip(_)
lstrip(s) == IF s # <<>> /\ Head(s) \in Whitespace THEN lstrip(Tail(s)) ELSE s

RECURSIVE rstrip(_)
rstrip(s) ==
    IF s # <<>> /\ s[Len(s)] \in Whitespace
    THEN rstrip(SubSeq(s, 1, Len(s) - 1))
    ELSE s

\* str.strip()
strip(s) == rstrip(lstrip(s))

Entity(c) ==
    IF c = "<" THEN <<"&", "l", "t", ";">>
    ELSE IF c = ">" THEN <<"&", "g", "t", ";">>
    ELSE IF c = "\"" THEN <<"&", "q", "u", "o", "t", ";">>
    ELSE <<c>>

RECURSIVE ReplaceAll(_)
ReplaceAll(s) == IF s = <<>> THEN <<>> ELSE Entity(Head(s)) \o ReplaceAll(Tail(s))

\* sanitize_input returning its argument
sanitize_input_raw(v) == v

\* sanitize_input: the three replacements on a string, anything else as is.
sanitize_input(v) == IF IsStr(v) THEN Str(ReplaceAll(v.val)) ELSE v


\* the email and name checks of validate_account_data on the JSON object o:
\* "ok", a BadRequest with its description, or the exception a value that is
\* no string raises (re.match on the email, .strip() on the name)
validate_fields(o) ==
    LET e == IF "email" \in DOMAIN o
             THEN validate_email(o["email"])
             ELSE [kind |-> "ok", val |-> TRUE]
    IN IF e.kind = "Exception" THEN e
       ELSE IF ~e.val
       THEN [kind |-> "BadRequest", description |-> "Invalid email format"]
       ELSE IF "name" \notin DOMAIN o THEN [kind |-> "ok"]
       ELSE IF ~IsStr(o["name"])
       THEN [kind |-> "Exception", type |-> "AttributeError"]
       ELSE IF Len(strip(o["name"].val)) < 2
       THEN [kind |-> "BadRequest",
             description |-> "Name must be at least 2 characters long"]
       ELSE [kind |-> "ok"]

\* validate_account_data rejecting a payload that has a key it does not know
validate_account_data_strict(data) ==
    IF data.none \/ DOMAIN data.obj = {}
    THEN [kind |-> "BadRequest", description |-> "No data provided"]
    ELSE IF DOMAIN data.obj \ {"name", "email", "phone"} # {}
    THEN [kind |-> "BadRequest", description |-> "Unknown field"]
    ELSE validate_fields(data.obj)

\* validate_account_data(data); data is the value request.get_json()
\* returned: none (Python None) or a JSON object.
validate_account_data(data) ==
    IF data.none \/ DOMAIN data.obj = {}
    THEN [kind |-> "BadRequest", description |-> "No data provided"]
    ELSE validate_fields(data.obj)

\* ----------------------------------------------------------- Account model
DateTime(t) == [kind |-> "datetime", val |-> t]

DigitChar(n) == <<"0","1","2","3","4","5","6","7","8","9">>[n + 1]

\* datetime.isoformat(), one digit of clock per timestamp
isoformat(d) == Str(<<"T", DigitChar(d.val)>>)

\* Account(): a transient row, every column None
Account == [name |-> Null, email |-> Null, phone |-> Null, date_joined |-> Null]

\* Account.to_dict
to_dict(id, a) ==
    [id |-> id, name |-> a.name, email |-> a.email, phone |-> a.phone,
     date_joined |-> IF a.date_joined # Null THEN isoformat(a.date_joined) ELSE Null]

\* FieldValue reading the payload with data.get(f): an absent key gives None
FieldValueGet(a, o, f) ==
    IF f \in DOMAIN o
    THEN IF IsStr(o[f]) THEN sanitize_input(o[f]) ELSE o[f]
    ELSE Null

\* FieldValue taking a null in the payload for an absent key
FieldValueSkipNull(a, o, f) ==
    IF f \in DOMAIN o /\ o[f] # Null
    THEN IF IsStr(o[f]) THEN sanitize_input(o[f]) ELSE o[f]
    ELSE a[f]

\* the value from_dict gives field f
FieldValue(a, o, f) ==
    IF f \in DOMAIN o
    THEN IF IsStr(o[f]) THEN sanitize_input(o[f]) ELSE o[f]
    ELSE a[f]

\* from_dict going over every column with data.get: date_joined is reset
from_dict_all(a, o) ==
    [name |-> FieldValue(a, o, "name"), email |-> FieldValue(a, o, "email"),
     phone |-> FieldValue(a, o, "phone"), date_joined |-> Null]

\* Account.from_dict
from_dict(a, o) ==
    [name |-> FieldValue(a, o, "name"), email |-> FieldValue(a, o, "email"),
     phone |-> FieldValue(a, o, "phone"), date_joined |-> a.date_joined]

\* ------------------------------------------------------- the account table
\* EmailUnique without the unique index on the column
EmailUniqueOff(st) == TRUE

\* unique=True on Account.email
EmailUnique(st) ==
    \A i \in DOMAIN st : \A j \in DOMAIN st : i # j => st[i].email # st[j].email

\* nullable=False on Account.name and Account.email
NotNull(st) == \A i \in DOMAIN st : st[i].name # Null /\ st[i].email # Null

Max(S) == CHOOSE m \in S : \A x \in S : x <= m

\* the key of an inserted row: INTEGER PRIMARY KEY of an SQLite table is one
\* more than the largest key in the table
NextId(st) == IF DOMAIN st = {} THEN 1 ELSE Max(DOMAIN st) + 1

RECURSIVE Decimal(_)
\* the decimal text of a natural number
Decimal(n) ==
    IF n < 10 THEN <<DigitChar(n)>>
    ELSE Decimal(n \div 10) \o <<DigitChar(n % 10)>>

\* a db.String column of the SQLite table: the column has text affinity, a
\* number bound to it is stored as its text; text and NULL are stored as
\* they are
String(v) == IF v.kind = "num" THEN Str(Decimal(v.val)) ELSE v

\* the rows of the session's table st as the table stores them
Stored(st) ==
    [i \in DOMAIN st |->
        [st[i] EXCEPT !.name = String(@), !.email = String(@),
                      !.phone = String(@)]]

\* what the database does with a commit: it takes it, or it fails
DbOutcomes == {"ok", "fails"}

\* commit on a table without constraints
commit_unchecked(old, new, db) ==
    IF db = "fails"
    THEN [ok |-> FALSE, store |-> old, pending |-> new, error |-> "OperationalError"]
    ELSE [ok |-> TRUE, store |-> new, pending |-> new, error |-> "none"]

\* db.session.commit() of the session's table new over the committed table
\* old.  db is what the database does: when it fails OperationalError is
\* raised; when a constraint does not hold IntegrityError is raised; else
\* new is committed.  store is the committed table after the call, pending
\* the session's table.
commit(old, new, db) ==
    IF db = "fails"
    THEN [ok |-> FALSE, store |-> old, pending |-> new, error |-> "OperationalError"]
    ELSE IF EmailUnique(Stored(new)) /\ NotNull(new)
    THEN [ok |-> TRUE, store |-> Stored(new), pending |-> new, error |-> "none"]
    ELSE [ok |-> FALSE, store |-> old, pending |-> new, error |-> "IntegrityError"]

\* rollback that leaves the session's changes in place
rollback_none(c) == c.pending

\* db.session.rollback() after the failed commit c: the session's changes
\* are dropped, the table requests see is the committed one
rollback(c) == c.store

\* db.session.add(account) flushed at commit: key and default date_joined
Insert(st, a, now) ==
    LET id == NextId(st)
        row == [a EXCEPT !.date_joined =
                   IF a.date_joined = Null THEN DateTime(now) ELSE a.date_joined]
    IN [i \in DOMAIN st \cup {id} |-> IF i = id THEN row ELSE st[i]]

\* Remove when the row is never marked for deletion
RemoveNone(st, id) == st

\* db.session.delete(account)
Remove(st, id) == [i \in DOMAIN st \ {id} |-> st[i]]

\* ---------------------------------------------------------------- requests
\* A request body: json says whether the request carries a JSON object (with
\* Content-Type application/json), obj is that object.
NoBody == [json |-> FALSE, obj |-> [k \in {} |-> Null]]

\* request.get_json(): the outcomes it can have on body.  What it does with
\* a request that carries no JSON depends on the Werkzeug release installed:
\* it returns None (before 2.1), raises BadRequest (2.1, 2.2) or raises
\* UnsupportedMediaType (2.3 and later).
get_json(body) ==
    IF body.json
    THEN {[kind |-> "ok", data |-> [none |-> FALSE, obj |-> body.obj]]}
    ELSE {[kind |-> "ok", data |-> [none |-> TRUE, obj |-> body.obj]],
          [kind |-> "BadRequest",
           description |-> "Content-Type was not application/json"],
          [kind |-> "Exception", type |-> "UnsupportedMediaType"]}

\* handle_bad_request
handle_bad_request(error) == [status |-> 400, body |-> [error |-> error.description]]

\* handle_error
handle_error(error) == [status |-> 500, body |-> [error |-> "Internal server error"]]

\* The handler Flask finds for an exception x raised outside a handler's own
\* try block: the one registered for the first class of x's class hierarchy
\* that has one.  BadRequest has handle_bad_request; every other exception,
\* the HTTP exceptions of routing included, has Exception in its hierarchy
\* and so handle_error.
handle_user_exception(x) ==
    IF x.kind = "BadRequest" THEN handle_bad_request(x) ELSE handle_error(x)

\* <int:account_id>: the converter matches one or more digits
IntConverter(segment) ==
    /\ segment # <<>>
    /\ \A k \in 1..Len(segment) : segment[k] \in Digits

\* the URL map on /api/v1/accounts/<segment>: the view is called with the
\* integer, or NotFound is raised
match(segment) ==
    IF IntConverter(segment) THEN [kind |-> "ok"] ELSE [kind |-> "NotFound"]

\* except Exception as e: return jsonify({'error': str(e)}), 500
InternalError(type) == [status |-> 500, body |-> [error |-> type]]

ErrorResponse(status, message) == [status |-> status, body |-> [error |-> message]]

\* the outcome of an exception raised inside a handler's try block
Raised(st, x) ==
    [store |-> st,
     resp |-> IF x.kind = "BadRequest" THEN handle_bad_request(x)
              ELSE InternalError(x.type)]

\* filter_by_email when the query finds no row
filter_by_email_none(st, email) == {}

\* Account.query.filter_by(email=email): the keys of the rows with that email
filter_by_email(st, email) == {i \in DOMAIN st : st[i].email = email}

\* create_check looking for the email before it validates the payload
create_check_duplicate_first(st, gj) ==
    IF gj.kind # "ok" THEN [done |-> TRUE, resp |-> Raised(st, gj).resp] ELSE
    LET data == gj.data
        o == data.obj
        v == validate_account_data(data) IN
    IF ~data.none /\ "email" \in DOMAIN o /\ filter_by_email(st, o["email"]) # {}
    THEN [done |-> TRUE, resp |-> ErrorResponse(409, "Email already exists")]
    ELSE IF v.kind # "ok" THEN [done |-> TRUE, resp |-> Raised(st, v).resp]
    ELSE IF "name" \notin DOMAIN o \/ "email" \notin DOMAIN o
    THEN [done |-> TRUE, resp |-> ErrorResponse(400, "Name and email are required")]
    ELSE [done |-> FALSE, obj |-> o]

\* create_account up to its existence check: the response it returns on the
\* way (done), or the JSON object it goes on to insert.  gj is the outcome
\* of request.get_json().
create_check(st, gj) ==
    IF gj.kind # "ok" THEN [done |-> TRUE, resp |-> Raised(st, gj).resp] ELSE
    LET data == gj.data
        v == validate_account_data(data) IN
    IF v.kind # "ok" THEN [done |-> TRUE, resp |-> Raised(st, v).resp] ELSE
    LET o == data.obj IN
    IF "name" \notin DOMAIN o \/ "email" \notin DOMAIN o
    THEN [done |-> TRUE, resp |-> ErrorResponse(400, "Name and email are required")]
    ELSE IF filter_by_email(st, o["email"]) # {}
    THEN [done |-> TRUE, resp |-> ErrorResponse(409, "Email already exists")]
    ELSE [done |-> FALSE, obj |-> o]

\* create_account from Account() to its return, on the table st
create_insert(st, o, now, db) ==
    LET id == NextId(st)
        c == commit(st, Insert(st, from_dict(Account, o), now), db)
    IN IF c.ok
       THEN [store |-> c.store,
             resp |-> [status |-> 201, body |-> to_dict(id, c.store[id])]]
       ELSE [store |-> rollback(c), resp |-> InternalError(c.error)]

\* POST /api/v1/accounts; gj is the outcome of request.get_json(), db what
\* the database does with the commit
create_account(st, gj, now, db) ==
    LET k == create_check(st, gj)
    IN IF k.done THEN [store |-> st, resp |-> k.resp]
       ELSE create_insert(st, k.obj, now, db)

\* get_account serializing the row without its date_joined
get_account_nodate(st, id) ==
    IF id \notin DOMAIN st
    THEN [store |-> st, resp |-> ErrorResponse(404, "Account not found")]
    ELSE [store |-> st,
          resp |-> [status |-> 200,
                    body |-> [to_dict(id, st[id]) EXCEPT !.date_joined = Null]]]

\* GET /api/v1/accounts/<int:account_id>
get_account(st, id) ==
    IF id \notin DOMAIN st
    THEN [store |-> st, resp |-> ErrorResponse(404, "Account not found")]
    ELSE [store |-> st, resp |-> [status |-> 200, body |-> to_dict(id, st[id])]]

\* Rows of a query that ends in .limit(1): the first row only
RowsFirst(st, S) ==
    IF S = {} THEN <<>>
    ELSE LET i == CHOOSE m \in S : \A x \in S : m <= x
         IN <<to_dict(i, st[i])>>

RECURSIVE Rows(_, _)
\* the rows of the table with keys in S, in key order
Rows(st, S) ==
    IF S = {} THEN <<>>
    ELSE LET i == CHOOSE m \in S : \A x \in S : m <= x
         IN <<to_dict(i, st[i])>> \o Rows(st, S \ {i})

\* GET /api/v1/accounts
list_accounts(st) ==
    [store |-> st, resp |-> [status |-> 200, body |-> Rows(st, DOMAIN st)]]

\* update_account reading and validating the payload before it looks for
\* the account
update_account_validate_first(st, id, gj, db) ==
    IF gj.kind # "ok" THEN Raised(st, gj) ELSE
    LET data == gj.data
        v == validate_account_data(data) IN
    IF v.kind # "ok" THEN Raised(st, v) ELSE
    IF id \notin DOMAIN st
    THEN [store |-> st, resp |-> ErrorResponse(404, "Account not found")]
    ELSE
    LET c == commit(st, [st EXCEPT ![id] = from_dict(st[id], data.obj)], db)
    IN IF c.ok
       THEN [store |-> c.store,
             resp |-> [status |-> 200, body |-> to_dict(id, c.store[id])]]
       ELSE [store |-> rollback(c), resp |-> InternalError(c.error)]

\* PUT /api/v1/accounts/<int:account_id>; gj and db as in create_account
update_account(st, id, gj, db) ==
    IF id \notin DOMAIN st
    THEN [store |-> st, resp |-> ErrorResponse(404, "Account not found")]
    ELSE
    IF gj.kind # "ok" THEN Raised(st, gj) ELSE
    LET data == gj.data
        v == validate_account_data(data) IN
    IF v.kind # "ok" THEN Raised(st, v) ELSE
    LET c == commit(st, [st EXCEPT ![id] = from_dict(st[id], data.obj)], db)
    IN IF c.ok
       THEN [store |-> c.store,
             resp |-> [status |-> 200, body |-> to_dict(id, c.store[id])]]
       ELSE [store |-> rollback(c), resp |-> InternalError(c.error)]

\* delete_account answering 200 when there is no such account
delete_account_idempotent(st, id, db) ==
    IF id \notin DOMAIN st
    THEN [store |-> st,
          resp |-> [status |-> 200,
                    body |-> [message |-> "Account deleted successfully"]]]
    ELSE LET c == commit(st, Remove(st, id), db)
         IN IF c.ok
            THEN [store |-> c.store,
                  resp |-> [status |-> 200,
                            body |-> [message |-> "Account deleted successfully"]]]
            ELSE [store |-> rollback(c), resp |-> InternalError(c.error)]

\* delete_account answering 200 without deleting the row
delete_account_noop(st, id, db) ==
    IF id \notin DOMAIN st
    THEN [store |-> st, resp |-> ErrorResponse(404, "Account not found")]
    ELSE [store |-> st,
          resp |-> [status |-> 200,
                    body |-> [message |-> "Account deleted successfully"]]]

\* DELETE /api/v1/accounts/<int:account_id>
delete_account(st, id, db) ==
    IF id \notin DOMAIN st
    THEN [store |-> st, resp |-> ErrorResponse(404, "Account not found")]
    ELSE LET c == commit(st, Remove(st, id), db)
         IN IF c.ok
            THEN [store |-> c.store,
                  resp |-> [status |-> 200,
                            body |-> [message |-> "Account deleted successfully"]]]
            ELSE [store |-> rollback(c), resp |-> InternalError(c.error)]

\* ------------------------------------------------------------------ inputs
\* Names a client sends: null, one character between blanks, two letters,
\* two characters of which one is markup.
NameValues ==
    {Null, Str(<<" ", "a", " ">>), Str(<<"A", "l">>), Str(<<"<", "b">>)}

\* Emails a client sends: null, a top-level domain of one letter, and two
\* well-formed addresses that differ in case only.
EmailValues ==
    {Null, Str(<<"a", "@", "b", ".", "c">>),
     Str(<<"a", "@", "b", ".", "c", "o">>), Str(<<"A", "@", "b", ".", "c", "o">>)}

PhoneValues == {Null, Str(<<">", "\"">>)}

KnownKeys == {"name", "email", "phone"}

\* keys no column of a payload is read from
ExtraKeys == {"id", "date_joined", "bogus"}

ExtraValue(k) ==
    IF k = "id" THEN Num(999)
    ELSE IF k = "date_joined" THEN Str(<<"2", "0", "2", "3">>)
    ELSE Num(1)

\* the JSON objects of the model: any subset of the known keys, with or
\* without the extra keys
Objects ==
    {[k \in K \cup E |->
        IF k = "name" THEN n
        ELSE IF k = "email" THEN e
        ELSE IF k = "phone" THEN p
        ELSE ExtraValue(k)] :
     K \in SUBSET KnownKeys, E \in {{}, ExtraKeys},
     n \in NameValues, e \in EmailValues, p \in PhoneValues}

Bodies == {NoBody} \cup {[json |-> TRUE, obj |-> o] : o \in Objects}

\* JSON objects whose values are null, a number, and text: names with and
\* without markup and one too short, emails that match the pattern, one
\* that does not and one that ends in a newline, a phone with markup
TypedObjects ==
    {[k \in K |->
        IF k = "name" THEN n
        ELSE IF k = "email" THEN e
        ELSE p] :
     K \in SUBSET KnownKeys,
     n \in {Null, Num(12), Str(<<" ", "a", " ">>), Str(<<"A", "l">>),
            Str(<<"<", "b">>)},
     e \in {Null, Num(12), Str(<<"a", "@", "b", ".", "c">>),
            Str(<<"a", "@", "b", ".", "c", "o">>),
            Str(<<"a", "@", "b", ".", "c", "o", "\n">>)},
     p \in {Null, Str(<<">", "\"">>), Num(12)}}

TypedBodies == {[json |-> TRUE, obj |-> o] : o \in TypedObjects}

Ids == 1..MaxId

\* id segments of a path: a word, a signed number, a number
Segments == {<<"x">>, <<"-", "1">>, <<"1">>}

Methods == {"GET", "PUT", "DELETE"}

\* ----------------------------------------------------------- state machine
\* store    the committed rows of the account table, by primary key
\* clock    the time datetime.utcnow returns
\* deleted  the keys of the rows deleted so far
\* req      the request being served, op "none" between two requests
\* resp     the response its handler returned
NoRequest == [op |-> "none", id |-> 0, body |-> NoBody]

NoResponse == [status |-> 0, body |-> [error |-> "none"]]

Idle == req.op = "none"

Init ==
    /\ store = [i \in {} |-> Account]
    /\ clock = 0
    /\ deleted = {}
    /\ req = NoRequest
    /\ resp = NoResponse

\* a client posts body to /api/v1/accounts
Create ==
    /\ Idle
    /\ \E body \in Bodies : \E gj \in get_json(body) :
        LET r == create_account(store, gj, clock, "ok") IN
        /\ DOMAIN r.store \subseteq Ids
        /\ store' = r.store
        /\ resp' = r.resp
        /\ req' = [op |-> "create", id |-> 0, body |-> body]
        /\ UNCHANGED <<clock, deleted>>

\* a client puts body to /api/v1/accounts/id
Update ==
    /\ Idle
    /\ \E id \in Ids : \E body \in Bodies : \E gj \in get_json(body) :
        LET r == update_account(store, id, gj, "ok") IN
        /\ store' = r.store
        /\ resp' = r.resp
        /\ req' = [op |-> "update", id |-> id, body |-> body]
        /\ UNCHANGED <<clock, deleted>>

\* a client deletes /api/v1/accounts/id
Delete ==
    /\ Idle
    /\ \E id \in Ids :
        LET r == delete_account(store, id, "ok") IN
        /\ store' = r.store
        /\ resp' = r.resp
        /\ req' = [op |-> "delete", id |-> id, body |-> NoBody]
        /\ deleted' = IF r.resp.status = 200 THEN deleted \cup {id} ELSE deleted
        /\ UNCHANGED clock

\* a client gets /api/v1/accounts/id
Get ==
    /\ Idle
    /\ \E id \in Ids :
        LET r == get_account(store, id) IN
        /\ store' = r.store
        /\ resp' = r.resp
        /\ req' = [op |-> "get", id |-> id, body |-> NoBody]
        /\ UNCHANGED <<clock, deleted>>

\* a client gets /api/v1/accounts
List ==
    /\ Idle
    /\ LET r == list_accounts(store) IN
        /\ store' = r.store
        /\ resp' = r.resp
        /\ req' = [op |-> "list", id |-> 0, body |-> NoBody]
        /\ UNCHANGED <<clock, deleted>>

\* a client sends method to /api/v1/accounts/segment and no route matches
Unrouted ==
    /\ Idle
    /\ \E method \in Methods : \E segment \in Segments :
        LET m == match(segment) IN
        /\ m.kind # "ok"
        /\ resp' = handle_user_exception(m)
        /\ req' = [op |-> "unrouted", id |-> 0, body |-> NoBody,
                   method |-> method, segment |-> segment]
        /\ UNCHANGED <<store, clock, deleted>>

\* after_request: the response leaves with its security headers and the
\* request is over
after_request ==
    /\ ~Idle
    /\ req' = NoRequest
    /\ resp' = NoResponse
    /\ UNCHANGED <<store, clock, deleted>>

\* time passes between two requests
Tick ==
    /\ Idle
    /\ clock < MaxTime
    /\ clock' = clock + 1
    /\ UNCHANGED <<store, deleted, req, resp>>

Next ==
    Create \/ Update \/ Delete \/ Get \/ List \/ Unrouted \/ after_request \/ Tick

Spec == Init /\ [][Next]_vars

\* ------------------------------------------- the database may fail a commit
\* Create, with a database that commits or fails
CreateFault ==
    /\ Idle
    /\ \E body \in Bodies : \E gj \in get_json(body) : \E db \in DbOutcomes :
        LET r == create_account(store, gj, clock, db) IN
        /\ DOMAIN r.store \subseteq Ids
        /\ store' = r.store
        /\ resp' = r.resp
        /\ req' = [op |-> "create", id |-> 0, body |-> body, db |-> db]
        /\ UNCHANGED <<clock, deleted>>

\* Update, with a database that commits or fails
UpdateFault ==
    /\ Idle
    /\ \E id \in Ids : \E body \in Bodies : \E gj \in get_json(body) :
       \E db \in DbOutcomes :
        LET r == update_account(store, id, gj, db) IN
        /\ store' = r.store
        /\ resp' = r.resp
        /\ req' = [op |-> "update", id |-> id, body |-> body, db |-> db]
        /\ UNCHANGED <<clock, deleted>>

\* Delete, with a database that commits or fails
DeleteFault ==
    /\ Idle
    /\ \E id \in Ids : \E db \in DbOutcomes :
        LET r == delete_account(store, id, db) IN
        /\ store' = r.store
        /\ resp' = r.resp
        /\ req' = [op |-> "delete", id |-> id, body |-> NoBody, db |-> db]
        /\ deleted' = IF r.resp.status = 200 THEN deleted \cup {id} ELSE deleted
        /\ UNCHANGED clock

NextFault ==
    \/ CreateFault \/ UpdateFault \/ DeleteFault
    \/ Get \/ List \/ Unrouted \/ after_request \/ Tick

SpecFault == Init /\ [][NextFault]_vars

\* --------------------------------------- payloads with values of all types
\* Create, with a body of TypedBodies
CreateTyped ==
    /\ Idle
    /\ \E body \in TypedBodies : \E gj \in get_json(body) :
        LET r == create_account(store, gj, clock, "ok") IN
        /\ DOMAIN r.store \subseteq Ids
        /\ store' = r.store
        /\ resp' = r.resp
        /\ req' = [op |-> "create", id |-> 0, body |-> body]
        /\ UNCHANGED <<clock, deleted>>

\* Update, with a body of TypedBodies
UpdateTyped ==
    /\ Idle
    /\ \E id \in Ids : \E body \in TypedBodies : \E gj \in get_json(body) :
        LET r == update_account(store, id, gj, "ok") IN
        /\ store' = r.store
        /\ resp' = r.resp
        /\ req' = [op |-> "update", id |-> id, body |-> body]
        /\ UNCHANGED <<clock, deleted>>

NextTyped == CreateTyped \/ UpdateTyped \/ after_request

SpecTyped == Init /\ [][NextTyped]_vars

\* ------------------------------------------- creates served concurrently
\* The server handles each request in a thread of its own, with a session of
\* its own on the one table.  req[w] is the request worker w is serving, with
\* pc its position in create_account, and resp[w] the response it returned.
Workers == 1..NumWorkers

\* bodies with a valid name and a valid email
ConcBodies ==
    {[json |-> TRUE, obj |-> [name |-> n, email |-> e]] :
     n \in {Str(<<"A", "l">>), Str(<<"<", "b">>)},
     e \in {Str(<<"a", "@", "b", ".", "c", "o">>),
            Str(<<"A", "@", "b", ".", "c", "o">>)}}

InitConc ==
    /\ store = [i \in {} |-> Account]
    /\ clock = 0
    /\ deleted = {}
    /\ req = [w \in Workers |-> NoRequest]
    /\ resp = [w \in Workers |-> NoResponse]

\* a client posts body to /api/v1/accounts and worker w takes the request
Receive(w) ==
    /\ req[w].op = "none"
    /\ \E body \in ConcBodies :
        req' = [req EXCEPT ![w] = [op |-> "create", id |-> 0, body |-> body,
                                   pc |-> "check"]]
    /\ UNCHANGED <<store, clock, deleted, resp>>

\* worker w runs create_account up to its existence check
Check(w) ==
    /\ req[w].op = "create" /\ req[w].pc = "check"
    /\ \E gj \in get_json(req[w].body) :
        LET k == create_check(store, gj) IN
        IF k.done
        THEN /\ req' = [req EXCEPT ![w].pc = "done"]
             /\ resp' = [resp EXCEPT ![w] = k.resp]
        ELSE /\ req' = [req EXCEPT ![w].pc = "insert"]
             /\ resp' = resp
    /\ UNCHANGED <<store, clock, deleted>>

\* worker w runs create_account from Account() to its return
Commit(w) ==
    /\ req[w].op = "create" /\ req[w].pc = "insert"
    /\ LET r == create_insert(store, req[w].body.obj, clock, "ok") IN
        /\ DOMAIN r.store \subseteq Ids
        /\ store' = r.store
        /\ resp' = [resp EXCEPT ![w] = r.resp]
        /\ req' = [req EXCEPT ![w].pc = "done"]
    /\ UNCHANGED <<clock, deleted>>

\* after_request of worker w: the response leaves
Respond(w) ==
    /\ req[w].op = "create" /\ req[w].pc = "done"
    /\ req' = [req EXCEPT ![w] = NoRequest]
    /\ resp' = [resp EXCEPT ![w] = NoResponse]
    /\ UNCHANGED <<store, clock, deleted>>

NextConc == \E w \in Workers : Receive(w) \/ Check(w) \/ Commit(w) \/ Respond(w)

SpecConc == InitConc /\ [][NextConc]_vars

\* ------------------------------------------------------------------ claims
\* the JSON object of the request that was just handled
Payload == req.body.obj

\* a name that passes validate_account_data
ValidName(v) == IsStr(v) /\ Len(strip(v.val)) >= 2

\* an email that passes validate_account_data
ValidEmail(v) == IsStr(v) /\ PatternMatches(v.val)

\* C1: in every reachable state no two persisted accounts have the same
\* email, compared as stored.
C1_UniqueEmail ==
    \A i \in DOMAIN store : \A j \in DOMAIN store :
        i # j => store[i].email # store[j].email

\* C1 witness: an update that asked for the email of another persisted
\* account was refused by the table.
C1_Witness ==
    /\ req.op = "update" /\ req.body.json /\ req.id \in DOMAIN store
    /\ "email" \in DOMAIN Payload
    /\ \E j \in DOMAIN store \ {req.id} : store[j].email = Payload["email"]
    /\ resp.status = 500 /\ resp.body = [error |-> "IntegrityError"]

\* C2: a create with a valid name and a valid email that is the email of a
\* persisted account is answered 409 'Email already exists' and leaves the
\* table as it was.
C2_DuplicateCreate ==
    [][(/\ req'.op = "create" /\ req'.body.json
        /\ {"name", "email"} \subseteq DOMAIN req'.body.obj
        /\ ValidName(req'.body.obj["name"])
        /\ ValidEmail(req'.body.obj["email"])
        /\ \E i \in DOMAIN store : store[i].email = req'.body.obj["email"])
       => (/\ resp'.status = 409
           /\ resp'.body = [error |-> "Email already exists"]
           /\ store' = store)]_vars

\* C2 witness: a create was answered 409 while an account holds its email.
C2_Witness ==
    /\ req.op = "create" /\ resp.status = 409
    /\ \E i \in DOMAIN store : store[i].email = Payload["email"]

\* C3: after a create answered 201, a GET of the returned id is answered 200
\* with the account of the 201 body, field by field.
C3_RoundTrip ==
    (req.op = "create" /\ resp.status = 201) =>
        LET g == get_account(store, resp.body.id).resp IN
        /\ g.status = 200
        /\ g.body.id = resp.body.id
        /\ g.body.name = resp.body.name
        /\ g.body.email = resp.body.email
        /\ g.body.phone = resp.body.phone
        /\ g.body.date_joined = resp.body.date_joined
        /\ resp.body.date_joined # Null

\* C3 witness: a create with markup in its name and a phone was answered 201.
C3_Witness ==
    /\ req.op = "create" /\ resp.status = 201
    /\ "phone" \in DOMAIN Payload
    /\ Payload["name"] = Str(<<"<", "b">>)

\* C4: an update answered 200 gives name, email and phone the payload's
\* value where the key is present, leaves them as they were where it is
\* absent, and changes no other account.
C4_UpdateFrame ==
    [][(req'.op = "update" /\ resp'.status = 200) =>
        LET id == req'.id
            o == req'.body.obj
        IN /\ DOMAIN store' = DOMAIN store
           /\ \A f \in KnownKeys :
                /\ f \in DOMAIN o => store'[id][f] = sanitize_input(o[f])
                /\ f \notin DOMAIN o => store'[id][f] = store[id][f]
           /\ \A j \in DOMAIN store \ {id} : store'[j] = store[j]]_vars

\* C4 witness: an update whose payload has phone but neither name nor email
\* was answered 200 while another account is persisted.
C4_Witness ==
    /\ req.op = "update" /\ resp.status = 200
    /\ DOMAIN Payload \cap KnownKeys = {"phone"}
    /\ DOMAIN store \ {req.id} # {}

\* body without the keys that are not name, email or phone
StripExtra(body) ==
    [json |-> body.json,
     obj |-> [k \in DOMAIN body.obj \cap KnownKeys |-> body.obj[k]]]

\* the outcomes of handling the create or update request (op, id, body) on
\* the table st at time now
Handled(st, op, id, body, now) ==
    IF op = "create"
    THEN {create_account(st, gj, now, "ok") : gj \in get_json(body)}
    ELSE {update_account(st, id, gj, "ok") : gj \in get_json(body)}

AccountKeys == {"id", "name", "email", "phone", "date_joined"}

\* a create or update answered with an account: the body has the five keys
\* of an account, and the id of a created account is the key of the new row,
\* not the id of the payload
StoreAssigned ==
    (resp'.status \in {200, 201}) =>
        /\ DOMAIN resp'.body = AccountKeys
        /\ req'.op = "create" =>
             /\ DOMAIN store' \ DOMAIN store = {resp'.body.id}
             /\ "id" \in DOMAIN req'.body.obj =>
                    resp'.body.id # req'.body.obj["id"].val
        /\ req'.op = "update" => resp'.body.id = req'.id

\* outcome a succeeds or fails as outcome b: the same table, the same status
\* and, when an account is returned, the same account
SameAnswer(a, b) ==
    /\ a.store = b.store
    /\ a.resp.status = b.resp.status
    /\ a.resp.status \in {200, 201} => a.resp.body = b.resp.body

\* C5 as claimed: a create or update whose payload has keys other than
\* name, email and phone succeeds or fails, and changes the table, as the
\* same request without those keys; the response has none of them and the
\* id is the table's.
C5_AsClaimed ==
    [][(/\ req'.op \in {"create", "update"} /\ req'.body.json
        /\ DOMAIN req'.body.obj \ KnownKeys # {})
       => (/\ \E b \in Handled(store, req'.op, req'.id, StripExtra(req'.body), clock) :
                 SameAnswer([store |-> store', resp |-> resp'], b)
           /\ StoreAssigned)]_vars

\* C5 amended: the same, for payloads that have at least one of name, email
\* and phone.  A payload of unknown keys only is not an empty payload: an
\* update of a persisted account is answered 200 with the account as it
\* was, a create is answered 400 'Name and email are required'; the table
\* is unchanged.
C5_ExtraKeysIgnored ==
    [][(/\ req'.op \in {"create", "update"} /\ req'.body.json
        /\ DOMAIN req'.body.obj \ KnownKeys # {})
       => IF DOMAIN req'.body.obj \cap KnownKeys # {}
          THEN /\ [store |-> store', resp |-> resp'] \in
                     Handled(store, req'.op, req'.id, StripExtra(req'.body), clock)
               /\ StoreAssigned
          ELSE /\ store' = store
               /\ req'.op = "create" =>
                    resp' = ErrorResponse(400, "Name and email are required")
               /\ (req'.op = "update" /\ req'.id \in DOMAIN store) =>
                    resp' = [status |-> 200, body |-> to_dict(req'.id, store[req'.id])]
               /\ (req'.op = "update" /\ req'.id \notin DOMAIN store) =>
                    resp'.status = 404]_vars

\* C5 witness: a create whose payload has id, date_joined and an unknown key
\* beside name and email was answered 201.
C5_Witness ==
    /\ req.op = "create" /\ resp.status = 201
    /\ ExtraKeys \subseteq DOMAIN Payload

\* C6: whatever request is handled, an account that is persisted before and
\* after it keeps its id and its date_joined; an update answered 200 returns
\* the id it was addressed to and the date_joined the account had.
C6_IdAndDateKept ==
    [][/\ \A i \in DOMAIN store \cap DOMAIN store' :
            /\ store'[i].date_joined = store[i].date_joined
            /\ get_account(store', i).resp.body.id = get_account(store, i).resp.body.id
            /\ get_account(store', i).resp.body.date_joined =
                   get_account(store, i).resp.body.date_joined
       /\ req'.op = "update" => DOMAIN store' = DOMAIN store
       /\ (req'.op = "update" /\ resp'.status = 200) =>
            /\ resp'.body.id = req'.id
            /\ resp'.body.date_joined = isoformat(store[req'.id].date_joined)]_vars

\* C6 witness: an update whose payload carries id and date_joined was
\* answered 200 on an account created before the last tick of the clock.
C6_Witness ==
    /\ req.op = "update" /\ resp.status = 200
    /\ {"id", "date_joined", "name"} \subseteq DOMAIN Payload
    /\ store[req.id].date_joined # DateTime(clock)

\* C7: a DELETE of a persisted account is answered 200 'Account deleted
\* successfully', removes that account and no other, and a GET of the id
\* issued next is answered 404.
C7_DeleteFinal ==
    [][(req'.op = "delete" /\ req'.id \in DOMAIN store) =>
        /\ resp' = [status |-> 200,
                    body |-> [message |-> "Account deleted successfully"]]
        /\ DOMAIN store' = DOMAIN store \ {req'.id}
        /\ \A j \in DOMAIN store' : store'[j] = store[j]
        /\ get_account(store', req'.id).resp =
               ErrorResponse(404, "Account not found")]_vars

\* C7 witness: a delete was answered 200 and another account remains.
C7_Witness ==
    /\ req.op = "delete" /\ resp.status = 200
    /\ req.id \in deleted /\ DOMAIN store # {}

\* C8 as claimed: a created account is never given the id of an account
\* that was deleted before.
C8_IdNeverReused ==
    [][(req'.op = "create" /\ resp'.status = 201) =>
          resp'.body.id \notin deleted]_vars

\* C9 as claimed: a create or update whose email is a string that does not
\* match the pattern, or whose name is a string of fewer than 2 characters
\* after trimming, is answered 400 and leaves the table unchanged.
C9_ValidationGate ==
    [][(/\ req'.op \in {"create", "update"} /\ req'.body.json
        /\ \/ /\ "email" \in DOMAIN req'.body.obj
              /\ IsStr(req'.body.obj["email"])
              /\ ~PatternMatches(req'.body.obj["email"].val)
           \/ /\ "name" \in DOMAIN req'.body.obj
              /\ IsStr(req'.body.obj["name"])
              /\ Len(strip(req'.body.obj["name"].val)) < 2)
       => (resp'.status = 400 /\ store' = store)]_vars

\* C10 as claimed: a create whose body lacks name or lacks email, an empty
\* JSON object and an absent body included, is answered 400 'Name and email
\* are required' and persists no account.
C10_RequiredFields ==
    [][(/\ req'.op = "create"
        /\ \/ ~req'.body.json
           \/ "name" \notin DOMAIN req'.body.obj
           \/ "email" \notin DOMAIN req'.body.obj)
       => (/\ resp' = ErrorResponse(400, "Name and email are required")
           /\ store' = store)]_vars

\* C11 as claimed: an update addressed to a persisted account whose body is
\* an empty JSON object or is absent is answered 400 'No data provided' and
\* leaves the table unchanged.
C11_UpdateNoData ==
    [][(/\ req'.op = "update" /\ req'.id \in DOMAIN store
        /\ (~req'.body.json \/ DOMAIN req'.body.obj = {}))
       => (/\ resp' = ErrorResponse(400, "No data provided")
           /\ store' = store)]_vars

\* C12 as claimed: a create whose name is null beside a valid email, or
\* whose email is null beside a valid name, is answered 400 and persists no
\* account.
C12_NullFields ==
    [][(/\ req'.op = "create" /\ req'.body.json
        /\ {"name", "email"} \subseteq DOMAIN req'.body.obj
        /\ \/ (req'.body.obj["name"] = Null /\ ValidEmail(req'.body.obj["email"]))
           \/ (req'.body.obj["email"] = Null /\ ValidName(req'.body.obj["name"])))
       => (resp'.status = 400 /\ store' = store)]_vars

\* a JSON object that is not empty and whose name and email, when present,
\* pass validation
ValidPayload(o) ==
    /\ DOMAIN o # {}
    /\ "name" \in DOMAIN o => ValidName(o["name"])
    /\ "email" \in DOMAIN o => ValidEmail(o["email"])

\* C13: a GET, a PUT with a valid non-empty payload and a DELETE of an id
\* that no persisted account has (never created, or deleted) are answered
\* 404 'Account not found' and leave the table unchanged.
C13_NotFound ==
    [][(/\ req'.op \in {"get", "update", "delete"}
        /\ req'.id \notin DOMAIN store
        /\ req'.op = "update" => (req'.body.json /\ ValidPayload(req'.body.obj)))
       => (/\ resp' = ErrorResponse(404, "Account not found")
           /\ store' = store)]_vars

\* C13 witness: a delete of the id of a deleted account was answered 404
\* while another account is persisted.
C13_Witness ==
    /\ req.op = "delete" /\ resp.status = 404
    /\ req.id \in deleted /\ req.id \notin DOMAIN store /\ DOMAIN store # {}

\* C14 as claimed: a GET, PUT or DELETE on /api/v1/accounts/{id} whose id
\* segment is no integer literal is answered 404, not 500, and leaves the
\* table unchanged.
C14_RouteNotFound ==
    [][(req'.op = "unrouted" /\ ~IntConverter(req'.segment))
       => (resp'.status = 404 /\ store' = store)]_vars

\* the handler of request r on the table st gets as far as its commit
ReachesCommit(st, r) ==
    CASE r.op = "create" ->
           \E gj \in get_json(r.body) : ~create_check(st, gj).done
      [] r.op = "update" ->
           /\ r.id \in DOMAIN st
           /\ \E gj \in get_json(r.body) :
                gj.kind = "ok" /\ validate_account_data(gj.data).kind = "ok"
      [] r.op = "delete" -> r.id \in DOMAIN st
      [] OTHER -> FALSE

\* C15: when the database fails the commit of a create, an update or a
\* delete, the transaction is rolled back, the response is 500 and the
\* persisted accounts are exactly those of before the request.
C15_RollbackOnFailure ==
    [][(/\ req'.op \in {"create", "update", "delete"}
        /\ req'.db = "fails"
        /\ ReachesCommit(store, req'))
       => (/\ resp' = InternalError("OperationalError")
           /\ store' = store
           /\ deleted' = deleted)]_vars

\* C15 witness: the commit of an update that would have changed a row
\* failed, and the response is 500.
C15_Witness ==
    /\ req.op = "update"
    /\ req.db = "fails"
    /\ resp = InternalError("OperationalError")
    /\ req.id \in DOMAIN store
    /\ from_dict(store[req.id], Payload) # store[req.id]

\* the update request r on the table st asks, with a payload that passes
\* validation, for the email of another persisted account
TakesEmailOfOther(st, r) ==
    /\ r.op = "update" /\ r.body.json
    /\ r.id \in DOMAIN st
    /\ ValidPayload(r.body.obj)
    /\ "email" \in DOMAIN r.body.obj
    /\ \E j \in DOMAIN st \ {r.id} : st[j].email = r.body.obj["email"]

\* C16 as claimed: a PUT on a persisted account that sets email to the email
\* of a different persisted account is answered 200 and the two accounts
\* share the email afterwards.
C16_AsClaimed ==
    [][TakesEmailOfOther(store, req')
       => (/\ resp'.status = 200
           /\ \E j \in DOMAIN store' \ {req'.id} :
                store'[j].email = store'[req'.id].email)]_vars

\* C16: a PUT on a persisted account that sets email to the email of a
\* different persisted account is refused by the unique index of the table
\* when the handler commits: the transaction is rolled back, the response
\* is 500 with the text of the IntegrityError, no row has changed, and no
\* two accounts share an email.
C16_UpdateDuplicateRefused ==
    [][TakesEmailOfOther(store, req')
       => (/\ resp' = InternalError("IntegrityError")
           /\ store' = store
           /\ \A i \in DOMAIN store' : \A j \in DOMAIN store' :
                i # j => store'[i].email # store'[j].email)]_vars

\* C16 witness: such a PUT, with a payload that passes validation, was
\* answered 500 and both accounts keep their own emails.
C16_Witness ==
    /\ TakesEmailOfOther(store, req)
    /\ resp.status = 500
    /\ store[req.id].email # Payload["email"]
    /\ Cardinality(DOMAIN store) = 2

\* C17: a PUT on a persisted account whose payload has, of name, email and
\* phone, only phone with value null is answered 200, sets phone to null and
\* leaves name and email unchanged; a PUT without the phone key leaves phone
\* as it was.
C17_PhoneNullVsOmitted ==
    [][(req'.op = "update" /\ req'.id \in DOMAIN store)
       => LET o == req'.body.obj
              id == req'.id IN
          /\ (DOMAIN o \cap KnownKeys = {"phone"} /\ o["phone"] = Null)
             => (/\ resp'.status = 200
                 /\ resp'.body.phone = Null
                 /\ store'[id].phone = Null
                 /\ store'[id].name = store[id].name
                 /\ store'[id].email = store[id].email
                 /\ resp'.body.name = store[id].name
                 /\ resp'.body.email = store[id].email)
          /\ "phone" \notin DOMAIN o
             => (id \in DOMAIN store' /\ store'[id].phone = store[id].phone)]_vars

\* C17 witness: of two persisted accounts one was sent PUT {phone: null} and
\* has no phone now, while the other still has one.
C17_Witness ==
    /\ req.op = "update" /\ resp.status = 200
    /\ Payload = [phone |-> Null]
    /\ store[req.id].phone = Null
    /\ \E j \in DOMAIN store \ {req.id} : store[j].phone # Null

\* C18: GET /api/v1/accounts is answered 200 with one entry per persisted
\* account and no other entry, each entry equal to the body GET of that id
\* returns, and leaves the table unchanged; the number of persisted
\* accounts, zero at the start, goes up by one with every create answered
\* 201 and down by one with every delete answered 200 and changes with no
\* other request, so the length of the list is the number of successful
\* creates minus the number of successful deletes.
C18_ListIsStore ==
    [][/\ req'.op = "list"
          => (/\ resp'.status = 200
              /\ Len(resp'.body) = Cardinality(DOMAIN store)
              /\ {resp'.body[k].id : k \in 1..Len(resp'.body)} = DOMAIN store
              /\ \A k \in 1..Len(resp'.body) :
                    resp'.body[k] = get_account(store, resp'.body[k].id).resp.body
              /\ store' = store)
       /\ Cardinality(DOMAIN store') =
            Cardinality(DOMAIN store)
            + (IF req'.op = "create" /\ resp'.status = 201 THEN 1 ELSE 0)
            - (IF req'.op = "delete" /\ resp'.status = 200 THEN 1 ELSE 0)]_vars

\* C18 witness: after creates and a delete the list has two entries.
C18_Witness ==
    /\ req.op = "list"
    /\ Len(resp.body) = 2
    /\ deleted # {}

Markup == {"<", ">", "\""}

\* no text of a name, email or phone column of the table st has a character
\* of Markup
NoMarkup(st) ==
    \A i \in DOMAIN st : \A f \in KnownKeys :
        IsStr(st[i][f]) => \A k \in 1..Len(st[i][f].val) : st[i][f].val[k] \notin Markup

\* the request just handled was a create or an update that was persisted
Persisted(r, a) ==
    \/ r.op = "create" /\ a.status = 201
    \/ r.op = "update" /\ a.status = 200

\* C19 as claimed: no persisted text of name, email or phone contains '<',
\* '>' or '"', each being replaced by its entity, field by field, and a
\* payload value that is no string is stored unchanged.
C19_AsClaimed ==
    [][/\ NoMarkup(store')
       /\ Persisted(req', resp')
          => \A f \in DOMAIN req'.body.obj \cap KnownKeys :
                LET v == req'.body.obj[f]
                    w == store'[resp'.body.id][f] IN
                /\ IsStr(v) => w = Str(ReplaceAll(v.val))
                /\ ~IsStr(v) => w = v]_vars

\* C19: no persisted text of name, email or phone contains '<', '>' or '"':
\* in a payload that is persisted each string has every such character
\* replaced by its entity, field by field; null is stored as null; a number
\* (accepted for phone only) is stored as its decimal text.
C19_Sanitized ==
    [][/\ NoMarkup(store')
       /\ Persisted(req', resp')
          => \A f \in DOMAIN req'.body.obj \cap KnownKeys :
                LET v == req'.body.obj[f]
                    w == store'[resp'.body.id][f] IN
                /\ IsStr(v) => w = Str(ReplaceAll(v.val))
                /\ v = Null => w = Null
                /\ v.kind = "num" => (f = "phone" /\ w = Str(Decimal(v.val)))]_vars

\* C19 witness: an update with markup in the name and a number for the
\* phone was persisted, next to an account whose phone had markup.
C19_Witness ==
    /\ req.op = "update" /\ resp.status = 200
    /\ {"name", "phone"} \subseteq DOMAIN Payload
    /\ Payload["name"] = Str(<<"<", "b">>)
    /\ store[req.id].name = Str(<<"&", "l", "t", ";", "b">>)
    /\ Payload["phone"] = Num(12)
    /\ store[req.id].phone = Str(<<"1", "2">>)
    /\ \E j \in DOMAIN store \ {req.id} :
          store[j].phone = Str(<<"&", "g", "t", ";", "&", "q", "u", "o", "t", ";">>)

\* C20 as claimed: of the creates with one valid email that are served
\* concurrently, each making its existence check before any of them
\* inserts, at most one is answered 201 and persisted, and every other one
\* is answered 409 'Email already exists'.
C20_ConcurrentDuplicate ==
    [][\A w \in Workers :
        (/\ req[w].op = "create" /\ req[w].pc = "insert"
         /\ req'[w].op = "create" /\ req'[w].pc = "done"
         /\ filter_by_email(store, req[w].body.obj["email"]) # {})
        => (/\ resp'[w] = ErrorResponse(409, "Email already exists")
            /\ store' = store)]_vars

\* s has the form local@domain.tld: characters of the local part, "@",
\* characters of the domain, ".", two or more letters, and nothing else
LocalAtDomainTld(s) ==
    \E i \in 1..Len(s) : \E j \in 1..Len(s) :
        /\ 1 < i /\ i + 1 < j /\ j + 2 <= Len(s)
        /\ s[i] = "@" /\ s[j] = "."
        /\ \A k \in 1..(i - 1) : s[k] \in LocalChars
        /\ \A k \in (i + 1)..(j - 1) : s[k] \in DomainChars
        /\ \A k \in (j + 1)..Len(s) : s[k] \in Letters

\* C21 as claimed: every persisted account has a name that is a string of
\* at least 2 characters after trimming and an email that is a string of
\* the form local@domain.tld.
C21_PersistedValid ==
    \A i \in DOMAIN store :
        /\ IsStr(store[i].name) /\ Len(strip(store[i].name.val)) >= 2
        /\ IsStr(store[i].email) /\ LocalAtDomainTld(store[i].email.val)

\* C22: a PUT addressed to an id that no persisted account has is answered
\* 404 'Account not found' whatever the payload is (absent, empty, with an
\* email that does not match, with a name that is too short, with a null),
\* never 400, and leaves the table unchanged.
C22_NotFoundBeforeValidation ==
    [][(req'.op = "update" /\ req'.id \notin DOMAIN store)
       => (/\ resp' = ErrorResponse(404, "Account not found")
           /\ resp'.status # 400
           /\ store' = store)]_vars

\* C22 witness: a PUT with an email that does not match the pattern and a
\* name that is too short, addressed to an id without account, was answered
\* 404.
C22_Witness ==
    /\ req.op = "update" /\ req.id \notin DOMAIN store
    /\ resp.status = 404
    /\ req.body.json /\ {"name", "email"} \subseteq DOMAIN Payload
    /\ IsStr(Payload["email"]) /\ ~PatternMatches(Payload["email"].val)
    /\ IsStr(Payload["name"]) /\ Len(strip(Payload["name"].val)) < 2

\* the create request r has the email of an account persisted in st and a
\* name that is missing or a string of fewer than 2 characters after
\* trimming
DuplicateWithBadName(st, r) ==
    /\ r.op = "create" /\ r.body.json
    /\ "email" \in DOMAIN r.body.obj
    /\ filter_by_email(st, r.body.obj["email"]) # {}
    /\ \/ "name" \notin DOMAIN r.body.obj
       \/ /\ IsStr(r.body.obj["name"])
          /\ Len(strip(r.body.obj["name"].val)) < 2

\* C23: a create whose email is that of a persisted account and whose name
\* is missing or shorter than 2 characters after trimming is answered 400,
\* not 409, and leaves the table unchanged.
C23_ValidationBeforeDuplicate ==
    [][DuplicateWithBadName(store, req')
       => (/\ resp'.status = 400
           /\ resp' # ErrorResponse(409, "Email already exists")
           /\ store' = store)]_vars

\* C23 witness: a create with the email of a persisted account and a name
\* of one character between blanks was answered 400.
C23_Witness ==
    /\ DuplicateWithBadName(store, req)
    /\ "name" \in DOMAIN Payload
    /\ resp = ErrorResponse(400, "Name must be at least 2 characters long")

\* the request just handled took email e from the account that held it: a
\* delete answered 200, or an update answered 200 that changed the email
Releases(st, r, a, st2) ==
    /\ r.id \in DOMAIN st
    /\ a.status = 200
    /\ \/ r.op = "delete"
       \/ r.op = "update" /\ st2[r.id].email # st[r.id].email

\* C24: after the account holding email e is deleted with success, or
\* updated with success to another email, a create with a valid name and
\* email e is answered 201 and an account with email e is persisted.
C24_EmailReleased ==
    [][Releases(store, req', resp', store')
       => LET e == store[req'.id].email IN
          \A n \in {v \in NameValues : ValidName(v)} :
          \A gj \in get_json([json |-> TRUE, obj |-> [name |-> n, email |-> e]]) :
             LET r == create_account(store', gj, clock', "ok") IN
             /\ r.resp.status = 201
             /\ r.resp.body.email = e
             /\ \E i \in DOMAIN r.store \ DOMAIN store' :
                   r.store[i].email = e /\ r.resp.body.id = i
             /\ \A i \in DOMAIN store' : r.store[i] = store'[i]]_vars

\* C24 witness: every id has been deleted, so each of the two emails was
\* held by an account that is gone, and a create on the empty table was
\* answered 201.
C24_Witness ==
    /\ req.op = "create" /\ resp.status = 201
    /\ deleted = Ids
    /\ DOMAIN store = {resp.body.id}
    /\ store[resp.body.id].email = Payload["email"]

====
